---- MODULE Spec2Model ----
(***************************************************************************)
(* Model of the MealTicketSystem React component (Redemption Session       *)
(* Controller).  The repository holds three variants of the component:     *)
(*   "V1"  src/app/page.tsx lines 1-691     (single batchLogin call)       *)
(*   "V2"  src/app/page.tsx lines 692-1456  (parallel calls, registry)     *)
(*   "V3"  src/unnamed/part_000             (batchLogin + session registry)*)
(*                                                                         *)
(* React semantics kept by the model:                                      *)
(*  - a handler reads the state of the render that created it: closures    *)
(*    that outlive a render (the scan pipeline, in-flight requests) carry  *)
(*    the values they captured;                                            *)
(*  - refs (animationFrameRef, videoRef) and the DOM are read live;        *)
(*  - after every task the component re-renders (Commit): the <video> is   *)
(*    mounted or unmounted from the new state and the cleanup of the       *)
(*    effect that depends on cameraStream runs with the old closure;       *)
(*  - setState on an unmounted component does nothing.                     *)
(***************************************************************************)
EXTENDS Integers, Sequences, FiniteSets, TLC

\* ------------------------------------------------------------------ bounds
MaxLogins == 2
MaxScans == 2
MaxScansV3 == 1
MaxScansStored == 1
MaxLoginsStored == 1
MaxLoginsV2 == 1
FrameStep == 100

\* ------------------------------------------------------- program constants
scanInterval == 300

CAFETERIA_QR_CODE ==
  <<"E","L","I","Z","A","D","E"," ","N","I","G","E","R","I","A"," ",
    "L","I","M","I","T","E","D"," ","M","E","A","L"," ",
    "T","I","C","K","E","T","I","N","G">>

MsgConnectionFailed == "Connection failed. Please check your internet connection."
MsgInvalidCredentials == "Invalid Staff ID or Surname"
MsgAlreadyUsedToday == "You have already used your meal ticket today"
MsgLogFailed == "Failed to log meal"
MsgLogConnect == "Failed to connect. Please try again."
MsgInvalidQR == "Invalid QR Code. Please scan the correct canteen QR code."
MsgStillLoading == "QR scanner is still loading. Please wait a moment and try again."
MsgVideoFailed == "Failed to start video"
MsgCameraDenied == "Camera access denied. Please enable camera permissions."
MsgActiveSession ==
  "You are already logged in on another device. Please logout from that device first."
MsgInvalidCredentialsV2 == "Invalid Staff ID or Surname. Please check your credentials."
MsgLogConnectV2 == "Failed to connect to Google Sheets. Please try again."
MsgInvalidQRV2 == "Invalid QR Code. Please scan the correct cafeteria QR code."
MsgSessionExpired == "Your session has expired or you logged in on another device."

\* ------------------------------------------------------------ string model
\* A string that the code transforms is a sequence of one-character strings.
LowerChars == <<"a","b","c","d","e","f","g","h","i","j","k","l","m",
                "n","o","p","q","r","s","t","u","v","w","x","y","z">>
UpperChars == <<"A","B","C","D","E","F","G","H","I","J","K","L","M",
                "N","O","P","Q","R","S","T","U","V","W","X","Y","Z">>
WhiteSpace == {" ", "\t", "\n"}

UpperChar(c) ==
  IF \E i \in 1..Len(LowerChars) : LowerChars[i] = c
  THEN UpperChars[CHOOSE i \in 1..Len(LowerChars) : LowerChars[i] = c]
  ELSE c

toUpperCase(str) == [i \in 1..Len(str) |-> UpperChar(str[i])]

RECURSIVE trimStart(_)
trimStart(str) ==
  IF str # <<>> /\ Head(str) \in WhiteSpace THEN trimStart(Tail(str)) ELSE str

RECURSIVE trimEnd(_)
trimEnd(str) ==
  IF str # <<>> /\ str[Len(str)] \in WhiteSpace
  THEN trimEnd(SubSeq(str, 1, Len(str) - 1))
  ELSE str

trim(str) == trimEnd(trimStart(str))

\* a || b for a string a (a number n || 0 is n: a missing price is modelled as 0)
OrElse(a, b) == IF a = "" THEN b ELSE a

\* ------------------------------------------------------------------ inputs
Null == [null |-> TRUE]

\* what the user can type into the two login fields
TypedStaffIds == { <<" ","e","n","1"," ">> }
TypedSurnames == { <<"d","o","e">> }

\* the roster of the remote store: the staff record it returns for a staff id, and
\* the redemption record it returns for one that has redeemed today
Roster(id) ==
  IF id = <<"E","N","1">>
  THEN [name |-> "Ada", department |-> "ICT", location |-> "", price |-> 500]
  ELSE [name |-> "Ben", department |-> "HR", location |-> "Ikeja", price |-> 0]
Ledger(id) ==
  IF id = <<"E","N","1">>
  THEN [name |-> "Ada", department |-> "ICT", location |-> "", price |-> 500,
        date |-> "2025-01-06", time |-> "12:30 PM"]
  ELSE [name |-> "Ben", department |-> "HR", location |-> "Ikeja", price |-> 0,
        date |-> "2025-01-06", time |-> "08:05 AM"]

\* the session a previous visit left in localStorage (part_000 171-172)
StoredSession ==
  [id |-> <<"E","N","1">>, name |-> "Ada", department |-> "ICT",
   location |-> "NOT SET", price |-> 500, loginTime |-> 0,
   sessionId |-> << <<"E","N","1">>, 0 >>]

\* the session a previous visit to V2 left in localStorage (page.tsx 909-921)
StoredSessionV2 ==
  [id |-> <<"E","N","1">>, name |-> "Ada", department |-> "ICT",
   price |-> 500, loginTime |-> 0, sessionId |-> << <<"E","N","1">>, 0 >>]

\* what the decoder can report for one frame
Padded(str) == <<" ">> \o str \o <<" ", "\n">>
Scenes ==
  { [kind |-> "none"], [kind |-> "throw"],
    [kind |-> "code", data |-> CAFETERIA_QR_CODE],
    [kind |-> "code", data |-> Padded(CAFETERIA_QR_CODE)],
    [kind |-> "code", data |-> <<"M","E","N","U">>],
    [kind |-> "code", data |-> toUpperCase(<<"e","l","i","z","a","d","e">>)],
    [kind |-> "code", data |-> <<" ">>],
    [kind |-> "code", data |-> <<>>] }

Variants == {"V1", "V2", "V3"}
Pages == {"login", "dashboard", "success", "alreadyUsed"}
StreamIds == 1..MaxScans
VideoIds == 1..(MaxScans + 1)

VARIABLES
  variant,            \* which of the three components runs
  mounted,            \* the component is mounted
  script,             \* jsQR <script> element: "primary", "fallback", "loaded", "failed"
  currentPage, session, staffId, surname, error, mealUsedToday, loading,
  showQRScanner, cameraStream, mealUsedInfo, jsQRLoaded,   \* useState
  animationFrameRef,  \* id of the last requestAnimationFrame call, 0 = null
  detectIntervalRef,  \* id of the last setInterval call, 0 = null
  videoRef,           \* the mounted <video> element, 0 = null
  videoSrc,           \* srcObject of each <video> element, 0 = null
  active,             \* MediaStreams whose tracks are live
  raf,                \* animation-frame callbacks scheduled, in order of registration
  tasks,              \* one startQRScanner call each: its position and its closure
  verifies,           \* one verifyMeal call each: the logMeal request and its response
  logins,             \* one handleLogin call each: the batchLogin request and its response
  pageTimers,         \* setTimeout(() => setCurrentPage(p), 100) pending, in order
  errorTimers,        \* setTimeout(() => setError(''), 5000) pending
  localStorage,       \* the item mealTicketSession, Null when absent
  mountCheck,         \* the stored-session check started on mount
  logout,             \* the handleLogout call of V2 that is in flight
  outbox,             \* registerSession / unregisterSession requests sent
  redeemed,           \* history: the page became success and no logout ran since
  stale               \* history: the requests that were in flight when a logout ran

vars == <<variant, mounted, script, currentPage, session, staffId, surname, error,
          mealUsedToday, loading, showQRScanner, cameraStream, mealUsedInfo,
          jsQRLoaded, animationFrameRef, detectIntervalRef, videoRef, videoSrc,
          active, raf, tasks, verifies, logins, pageTimers, errorTimers,
          localStorage, mountCheck, logout, outbox, redeemed, stale>>

\* The whole state as one record: the handlers are functions from state to state.
St ==
  [variant |-> variant, mounted |-> mounted, script |-> script,
   currentPage |-> currentPage, session |-> session, staffId |-> staffId,
   surname |-> surname, error |-> error, mealUsedToday |-> mealUsedToday,
   loading |-> loading, showQRScanner |-> showQRScanner,
   cameraStream |-> cameraStream, mealUsedInfo |-> mealUsedInfo,
   jsQRLoaded |-> jsQRLoaded, animationFrameRef |-> animationFrameRef,
   detectIntervalRef |-> detectIntervalRef, logout |-> logout,
   videoRef |-> videoRef, videoSrc |-> videoSrc, active |-> active, raf |-> raf,
   frame |-> <<>>, tasks |-> tasks, verifies |-> verifies, logins |-> logins,
   pageTimers |-> pageTimers, errorTimers |-> errorTimers,
   localStorage |-> localStorage, mountCheck |-> mountCheck, outbox |-> outbox,
   redeemed |-> redeemed, stale |-> stale]

Apply(s) ==
  /\ variant' = s.variant
  /\ mounted' = s.mounted
  /\ script' = s.script
  /\ currentPage' = s.currentPage
  /\ session' = s.session
  /\ staffId' = s.staffId
  /\ surname' = s.surname
  /\ error' = s.error
  /\ mealUsedToday' = s.mealUsedToday
  /\ loading' = s.loading
  /\ showQRScanner' = s.showQRScanner
  /\ cameraStream' = s.cameraStream
  /\ mealUsedInfo' = s.mealUsedInfo
  /\ jsQRLoaded' = s.jsQRLoaded
  /\ animationFrameRef' = s.animationFrameRef
  /\ detectIntervalRef' = s.detectIntervalRef
  /\ logout' = s.logout
  /\ videoRef' = s.videoRef
  /\ videoSrc' = s.videoSrc
  /\ active' = s.active
  /\ raf' = s.raf
  /\ tasks' = s.tasks
  /\ verifies' = s.verifies
  /\ logins' = s.logins
  /\ pageTimers' = s.pageTimers
  /\ errorTimers' = s.errorTimers
  /\ localStorage' = s.localStorage
  /\ mountCheck' = s.mountCheck
  /\ outbox' = s.outbox
  /\ redeemed' = s.redeemed
  /\ stale' = s.stale

IdleTask ==
  [phase |-> "idle", cCam |-> 0, cSession |-> Null, cUsed |-> FALSE,
   vid |-> 0, since |-> 0]
DeadTask == [IdleTask EXCEPT !.phase = "dead"]
IdleVerify ==
  [phase |-> "idle", stage |-> "", session |-> Null, code |-> <<>>, resp |-> Null]
IdleLogin ==
  [phase |-> "idle", stage |-> "", entered |-> <<>>, id |-> <<>>, resp |-> Null,
   staff |-> Null]
IdleLogout == [phase |-> "idle", cCam |-> 0]
IdleCheck == [phase |-> "idle", stage |-> "", stored |-> Null, resp |-> Null]
NoneStale == [logins |-> {}, verifies |-> {}, mount |-> FALSE]

\* stored: what localStorage holds when the component mounts
InitState(v, stored) ==
  [variant |-> v, mounted |-> TRUE, script |-> "primary",
   currentPage |-> "login", session |-> Null, staffId |-> <<>>,
   surname |-> <<>>, error |-> "", mealUsedToday |-> FALSE,
   loading |-> FALSE, showQRScanner |-> FALSE,
   cameraStream |-> 0, mealUsedInfo |-> Null,
   jsQRLoaded |-> FALSE, animationFrameRef |-> 0, detectIntervalRef |-> 0,
   logout |-> IdleLogout,
   videoRef |-> 0, videoSrc |-> [e \in VideoIds |-> 0], active |-> {}, raf |-> <<>>,
   frame |-> <<>>, tasks |-> [k \in StreamIds |-> IdleTask],
   verifies |-> [k \in StreamIds |-> IdleVerify],
   logins |-> [k \in 1..MaxLogins |-> IdleLogin],
   pageTimers |-> <<>>, errorTimers |-> 0,
   localStorage |-> stored,
   mountCheck |-> IF stored = Null THEN IdleCheck
                  ELSE [phase |-> "sent",
                        stage |-> IF v = "V2" THEN "checkMeal" ELSE "both",
                        stored |-> stored, resp |-> Null],
   outbox |-> {}, redeemed |-> FALSE, stale |-> NoneStale]


\* --------------------------------------------------------------- rendering
Remove(seq, x) == SelectSeq(seq, LAMBDA y : y # x)

\* the <video> and <canvas> are rendered on the dashboard while the scanner is shown
\* (page.tsx 449, 518-544)
Visible(s) ==
  s.mounted /\ s.currentPage = "dashboard" /\ ~s.mealUsedToday /\ s.showQRScanner

UsedVideos(s) == ({s.videoRef} \cup {s.tasks[k].vid : k \in StreamIds}) \ {0}

FreshVideo(s) ==
  CHOOSE e \in VideoIds :
    e \notin UsedVideos(s) /\ \A f \in VideoIds : f \notin UsedVideos(s) => e <= f

\* React attaches videoRef when the element is mounted and nulls it when it is removed
Render(s) ==
  IF Visible(s)
  THEN IF s.videoRef = 0 THEN [s EXCEPT !.videoRef = FreshVideo(s)] ELSE s
  ELSE [s EXCEPT !.videoRef = 0]

\* elements nothing refers to any more are forgotten
Collect(s) ==
  [s EXCEPT !.videoSrc = [e \in VideoIds |-> IF e \in UsedVideos(s) THEN @[e] ELSE 0]]

cancelAnimationFrame(s, id) ==
  [s EXCEPT !.raf = Remove(@, id), !.frame = Remove(@, id)]

stopTracks(s, stream) ==
  IF stream # 0 THEN [s EXCEPT !.active = @ \ {stream}] ELSE s

\* the cleanup of useEffect(..., [cameraStream]); cam is the cameraStream of the
\* render that created the effect
cleanupEffect(s, cam) ==
  LET s1 == IF s.animationFrameRef # 0
            THEN cancelAnimationFrame(s, s.animationFrameRef)
            ELSE s
  IN  stopTracks(s1, cam)

\* setState does nothing once the component is unmounted
KeepReactState(old, n) ==
  [n EXCEPT !.currentPage = old.currentPage, !.session = old.session,
            !.staffId = old.staffId, !.surname = old.surname,
            !.error = old.error, !.mealUsedToday = old.mealUsedToday,
            !.loading = old.loading, !.showQRScanner = old.showQRScanner,
            !.cameraStream = old.cameraStream, !.mealUsedInfo = old.mealUsedInfo,
            !.jsQRLoaded = old.jsQRLoaded, !.redeemed = old.redeemed]

clearInterval(s, id) ==
  [s EXCEPT !.tasks[id] = IF @.phase = "interval" THEN DeadTask ELSE @]

\* stopQRScanner of V2 (page.tsx 1008-1024); cam: the cameraStream captured by the
\* closure that is called
stopQRScannerV2(s, cam) ==
  LET s1 == IF s.detectIntervalRef # 0
            THEN [clearInterval(s, s.detectIntervalRef) EXCEPT !.detectIntervalRef = 0]
            ELSE s
      s2 == IF cam # 0 THEN [stopTracks(s1, cam) EXCEPT !.cameraStream = 0] ELSE s1
      s3 == IF s2.videoRef # 0 THEN [s2 EXCEPT !.videoSrc[s2.videoRef] = 0] ELSE s2
  IN  [s3 EXCEPT !.showQRScanner = FALSE]

\* V2: useEffect(() => () => stopQRScanner(), [stopQRScanner]) (page.tsx 1154-1158).
\* stopQRScanner is a new function whenever cameraStream changes, so the render
\* that follows such a change runs the cleanup of the previous effect, which calls
\* the stopQRScanner of the previous render; what that sets is rendered in turn.
\* cam: the cameraStream of the render whose effect is in place
RECURSIVE Settle(_, _)
Settle(cam, n) ==
  IF Render(n).mounted /\ Render(n).cameraStream # cam
  THEN Settle(Render(n).cameraStream, stopQRScannerV2(Render(n), cam))
  ELSE Render(n)

\* the re-render that follows a task: old is the state before the task, new the
\* state its handler left
Commit(old, new) ==
  LET n1 == IF old.mounted THEN new ELSE KeepReactState(old, new)
      n2 == Render(n1)
      n3 == IF n2.mounted /\ n2.cameraStream # old.cameraStream
            THEN cleanupEffect(n2, old.cameraStream)
            ELSE n2
  IN  IF old.variant = "V2" THEN Collect(Settle(old.cameraStream, n1))
      ELSE Collect(n3)

\* ---------------------------------------------------------------- handlers
\* mutant: setShowQRScanner(v => !v) in place of setShowQRScanner(false)
stopQRScannerToggle(s, cam) ==
  LET s1 == IF s.animationFrameRef # 0
            THEN [cancelAnimationFrame(s, s.animationFrameRef)
                    EXCEPT !.animationFrameRef = 0]
            ELSE s
      s2 == stopTracks(s1, cam)
      s3 == [s2 EXCEPT !.cameraStream = 0]
      s4 == IF s3.videoRef # 0 THEN [s3 EXCEPT !.videoSrc[s3.videoRef] = 0] ELSE s3
  IN  [s4 EXCEPT !.showQRScanner = ~s.showQRScanner]

\* cam: the cameraStream captured by the closure that is called
stopQRScanner(s, cam) ==
  LET s1 == IF s.animationFrameRef # 0
            THEN [cancelAnimationFrame(s, s.animationFrameRef)
                    EXCEPT !.animationFrameRef = 0]
            ELSE s
      s2 == stopTracks(s1, cam)
      s3 == [s2 EXCEPT !.cameraStream = 0]
      s4 == IF s3.videoRef # 0 THEN [s3 EXCEPT !.videoSrc[s3.videoRef] = 0] ELSE s3
  IN  [s4 EXCEPT !.showQRScanner = FALSE]

\* mutant: the staff id is uppercased but not trimmed
handleLoginUntrimmed(s, k) ==
  [s EXCEPT !.error = "", !.loading = TRUE,
            !.logins[k] = [IdleLogin EXCEPT !.phase = "sent",
                                            !.stage = "batchLogin",
                                            !.entered = s.staffId,
                                            !.id = toUpperCase(s.staffId)]]

\* handleLogin up to its await fetch(batchLogin)
handleLogin(s, k) ==
  [s EXCEPT !.error = "", !.loading = TRUE,
            !.logins[k] = [IdleLogin EXCEPT !.phase = "sent",
                                            !.stage = "batchLogin",
                                            !.entered = s.staffId,
                                            !.id = trim(toUpperCase(s.staffId))]]

DoneLogin == [IdleLogin EXCEPT !.phase = "done"]

LoginResponse(kind, errorType, errorText, staff, mealInfo) ==
  [kind |-> kind, errorType |-> errorType, error |-> errorText,
   staff |-> staff, mealInfo |-> mealInfo]

MsgTimeExpired == "Meal tickets are only available Mon-Fri, 7AM - 5PM"
MsgLoginFailed == "Login failed"

\* every answer the remote store can give to batchLogin for staff id `id`, and the
\* failure of the request; data.error is the store's text: one of its own for the
\* time window, one it uses for any failure, or none
LoginResponses(id) ==
  { LoginResponse("ok", "", "", Roster(id), Null),
    LoginResponse("fail", "ALREADY_USED", "Meal already used", Null, Ledger(id)),
    LoginResponse("fail", "TIME_EXPIRED", MsgTimeExpired, Null, Null),
    LoginResponse("fail", "TIME_EXPIRED", MsgLoginFailed, Null, Null),
    LoginResponse("fail", "TIME_EXPIRED", "", Null, Null),
    LoginResponse("fail", "INVALID", "", Null, Null),
    LoginResponse("fail", "INVALID", MsgLoginFailed, Null, Null),
    LoginResponse("fail", "ACTIVE_SESSION", "", Null, Null),
    LoginResponse("ok", "", "", Null, Null),
    LoginResponse("network", "", "", Null, Null) }

\* the try block throws: the request failed, the body is not JSON, or the record
\* the answer announces is missing
Throws(r) ==
  \/ r.kind = "network"
  \/ r.kind = "ok" /\ r.staff = Null
  \/ r.kind = "fail" /\ r.errorType = "ALREADY_USED" /\ r.mealInfo = Null

\* mutant: the catch block without the setLoading(false) after it
connectionFailedStuck(d) == [d EXCEPT !.error = MsgConnectionFailed]

\* the catch block and the setLoading(false) after it
connectionFailed(d) ==
  [d EXCEPT !.error = MsgConnectionFailed, !.loading = FALSE]

\* mutant: the TIME_EXPIRED branch without its setLoading(false)
timeExpiredStuck(d, r) == [d EXCEPT !.error = r.error]

\* the TIME_EXPIRED branch: setError(data.error); setLoading(false)
timeExpired(d, r) == [d EXCEPT !.error = r.error, !.loading = FALSE]

\* mutant: date and time of the redemption record swapped
alreadyUsedInfoSwapped(r, upperStaffId) ==
  [name |-> r.mealInfo.name,
   department |-> r.mealInfo.department,
   location |-> OrElse(r.mealInfo.location, "Unknown"),
   staffId |-> upperStaffId,
   usedDate |-> r.mealInfo.time,
   usedTime |-> r.mealInfo.date,
   price |-> r.mealInfo.price]

\* the object handed to setMealUsedInfo
alreadyUsedInfo(r, upperStaffId) ==
  [name |-> r.mealInfo.name,
   department |-> r.mealInfo.department,
   location |-> OrElse(r.mealInfo.location, "Unknown"),
   staffId |-> upperStaffId,
   usedDate |-> r.mealInfo.date,
   usedTime |-> r.mealInfo.time,
   price |-> r.mealInfo.price]

\* handleLogin from the response on (page.tsx 106-151)
handleLoginResumeV1(s, k) ==
  LET r == s.logins[k].resp
      upperStaffId == s.logins[k].id
      d == [s EXCEPT !.logins[k] = DoneLogin]
  IN  CASE Throws(r) -> connectionFailed(d)
        [] r.kind = "fail" /\ r.errorType = "ALREADY_USED" ->
             [d EXCEPT !.mealUsedInfo =
                          alreadyUsedInfo(r, upperStaffId),
                       !.loading = FALSE,
                       !.pageTimers = Append(@, "alreadyUsed")]
        [] r.kind = "fail" /\ r.errorType = "TIME_EXPIRED" -> timeExpired(d, r)
        [] r.kind = "fail" ->
             [d EXCEPT !.error = OrElse(r.error, MsgInvalidCredentials),
                       !.loading = FALSE]
        [] OTHER ->
             [d EXCEPT !.session =
                          [id |-> upperStaffId,
                           name |-> r.staff.name,
                           department |-> r.staff.department,
                           location |-> OrElse(r.staff.location, "NOT SET"),
                           price |-> r.staff.price],
                       !.mealUsedToday = FALSE,
                       !.pageTimers = Append(@, "dashboard"),
                       !.loading = FALSE]

\* handleLogin from the response on (part_000 126-181); the k-th login stands for
\* Date.now() in the session id and for the login time
handleLoginResumeV3(s, k) ==
  LET r == s.logins[k].resp
      upperStaffId == s.logins[k].id
      d == [s EXCEPT !.logins[k] = DoneLogin]
      sessionId == <<upperStaffId, k>>
      sessionData == [id |-> upperStaffId,
                      name |-> r.staff.name,
                      department |-> r.staff.department,
                      location |-> OrElse(r.staff.location, "NOT SET"),
                      price |-> r.staff.price,
                      loginTime |-> k,
                      sessionId |-> sessionId]
  IN  CASE Throws(r) -> connectionFailed(d)
        [] r.kind = "fail" /\ r.errorType = "ALREADY_USED" ->
             [d EXCEPT !.mealUsedInfo =
                          alreadyUsedInfo(r, upperStaffId),
                       !.loading = FALSE,
                       !.currentPage = "alreadyUsed"]
        [] r.kind = "fail" /\ r.errorType = "ACTIVE_SESSION" ->
             [d EXCEPT !.error = MsgActiveSession, !.loading = FALSE]
        [] r.kind = "fail" /\ r.errorType = "TIME_EXPIRED" -> timeExpired(d, r)
        [] r.kind = "fail" ->
             [d EXCEPT !.error = OrElse(r.error, MsgInvalidCredentials),
                       !.loading = FALSE]
        [] OTHER ->
             [d EXCEPT !.outbox = @ \cup {[action |-> "registerSession",
                                           staffId |-> upperStaffId,
                                           sessionId |-> sessionId]},
                       !.session = sessionData,
                       !.localStorage = sessionData,
                       !.mealUsedToday = FALSE,
                       !.currentPage = "dashboard",
                       !.loading = FALSE]

\* handleLogin of V2 up to its await Promise.all (page.tsx 845-859)
handleLoginV2(s, k) ==
  [s EXCEPT !.error = "", !.loading = TRUE,
            !.logins[k] = [IdleLogin EXCEPT !.phase = "sent", !.stage = "validate",
                                            !.entered = s.staffId, !.id = s.staffId]]

\* the answers to the requests of handleLogin of V2, by the request awaited:
\* checkMeal with validateStaff, checkActiveSession, registerSession and the
\* checkMeal of checkMealStatus (kind "fail" stands for used: true). The first
\* stage awaits two answers: mealInfo is the answer of checkMeal when it
\* reports used: true, staff the answer of validateStaff when it reports
\* valid: true
LoginResponsesV2(stage, id) ==
  CASE stage = "validate" ->
         { LoginResponse("ok", "", "", Roster(id), Null),
           LoginResponse("fail", "ALREADY_USED", "", Roster(id), Ledger(id)),
           LoginResponse("fail", "ALREADY_USED", "", Null, Ledger(id)),
           LoginResponse("fail", "INVALID", "", Null, Null),
           LoginResponse("network", "", "", Null, Null) }
    [] stage = "active" ->
         { LoginResponse("ok", "", "", Null, Null),
           LoginResponse("fail", "ACTIVE_SESSION", "", Null, Null),
           LoginResponse("network", "", "", Null, Null) }
    [] stage = "register" ->
         { LoginResponse("ok", "", "", Null, Null),
           LoginResponse("network", "", "", Null, Null) }
    [] OTHER ->
         { LoginResponse("ok", "", "", Null, Null),
           LoginResponse("fail", "ALREADY_USED", "", Null, Null),
           LoginResponse("network", "", "", Null, Null) }

alreadyUsedInfoV2(r, id) ==
  [name |-> r.mealInfo.name,
   department |-> r.mealInfo.department,
   staffId |-> id,
   usedDate |-> r.mealInfo.date,
   usedTime |-> r.mealInfo.time]

\* sessionData of V2; the k-th login stands for Date.now()
sessionDataV2(l, k) ==
  [id |-> l.id, name |-> l.staff.name, department |-> l.staff.department,
   price |-> l.staff.price, loginTime |-> k, sessionId |-> <<l.id, k>>]

WaitLogin(page) == [DoneLogin EXCEPT !.phase = "wait", !.stage = page]

\* handleLogin of V2 from a response to the next await or to its end
\* (page.tsx 861-941); w: the wait that fills minLoadTime is needed.  Where
\* nothing is set before that wait, the wait is part of the step.
handleLoginResumeV2(s, k, w) ==
  LET l == s.logins[k]
      r == s.logins[k].resp
      d == [s EXCEPT !.logins[k] = DoneLogin]
      n == [s EXCEPT !.logins[k].phase = "sent", !.logins[k].resp = Null]
  IN  CASE r.kind = "network" /\ l.stage # "status" -> connectionFailed(d)
        [] l.stage = "validate" /\ r.kind = "fail" /\ r.errorType = "ALREADY_USED" ->
             IF w
             THEN [s EXCEPT !.mealUsedInfo = alreadyUsedInfoV2(r, l.id),
                            !.logins[k] = WaitLogin("alreadyUsed")]
             ELSE [d EXCEPT !.mealUsedInfo = alreadyUsedInfoV2(r, l.id),
                            !.loading = FALSE, !.currentPage = "alreadyUsed"]
        [] l.stage = "validate" /\ r.kind = "fail" ->
             [d EXCEPT !.error = MsgInvalidCredentialsV2, !.loading = FALSE]
        [] l.stage = "validate" ->
             [n EXCEPT !.logins[k].stage = "active", !.logins[k].staff = r.staff]
        [] l.stage = "active" /\ r.kind = "fail" ->
             [d EXCEPT !.error = MsgActiveSession, !.loading = FALSE]
        [] l.stage = "active" ->
             [n EXCEPT !.logins[k].stage = "register",
                       !.outbox = @ \cup {[action |-> "registerSession",
                                           staffId |-> l.id,
                                           sessionId |-> <<l.id, k>>]}]
        [] l.stage = "register" ->
             [n EXCEPT !.logins[k].stage = "status",
                       !.session = sessionDataV2(l, k),
                       !.localStorage = sessionDataV2(l, k)]
        [] OTHER ->
             LET m == IF r.kind = "network" THEN s
                      ELSE [s EXCEPT !.mealUsedToday = (r.kind = "fail")]
             IN  IF w
                 THEN [m EXCEPT !.logins[k] = WaitLogin("dashboard")]
                 ELSE [m EXCEPT !.logins[k] = DoneLogin,
                                !.currentPage = "dashboard", !.loading = FALSE]

\* handleLogin of V2 after the wait that fills minLoadTime
handleLoginWaitV2(s, k) ==
  IF s.logins[k].stage = "alreadyUsed"
  THEN [s EXCEPT !.logins[k] = DoneLogin, !.loading = FALSE,
                 !.currentPage = "alreadyUsed"]
  ELSE [s EXCEPT !.logins[k] = DoneLogin, !.currentPage = "dashboard",
                 !.loading = FALSE]

handleLoginResume(s, k, w) ==
  CASE s.variant = "V1" -> handleLoginResumeV1(s, k)
    [] s.variant = "V2" -> handleLoginResumeV2(s, k, w)
    [] OTHER -> handleLoginResumeV3(s, k)

Today == "2025-01-06"

\* the answers to the two requests of the session check on mount, and their failure
MountResponses ==
  { [kind |-> "ok", used |-> u, valid |-> v, date |-> "", time |-> "",
     location |-> "", price |-> 0] : u, v \in BOOLEAN }
  \cup { [kind |-> "network", used |-> FALSE, valid |-> FALSE, date |-> "",
          time |-> "", location |-> "", price |-> 0] }

\* the .then / .catch of the session check on mount (part_000 88-110)
\* mutant: the stored session is restored whatever verifySession answers
sessionValidAlways(r) == TRUE

\* sessionValid.valid / data.valid in the answer of verifySession
sessionValid(r) == r.valid

mountResumeV3(s) ==
  LET r == s.mountCheck.resp
      sessionData == s.mountCheck.stored
      d == [s EXCEPT !.mountCheck = [IdleCheck EXCEPT !.phase = "done"]]
  IN  IF r.kind = "network" THEN [d EXCEPT !.localStorage = Null]
      ELSE IF r.used
      THEN [d EXCEPT !.mealUsedInfo =
                        [name |-> sessionData.name,
                         department |-> sessionData.department,
                         location |-> OrElse(sessionData.location,
                                             OrElse(r.location, "Unknown")),
                         staffId |-> sessionData.id,
                         usedDate |-> OrElse(r.date, Today),
                         usedTime |-> OrElse(r.time, "Earlier today"),
                         price |-> r.price],
                     !.localStorage = Null,
                     !.currentPage = "alreadyUsed"]
      ELSE IF sessionValid(r)
      THEN [d EXCEPT !.session = sessionData, !.mealUsedToday = FALSE,
                     !.currentPage = "dashboard"]
      ELSE [d EXCEPT !.localStorage = Null, !.error = MsgSessionExpired]

\* the stored-session check of V2 from an answer on (page.tsx 803-841): checkMeal,
\* then verifySession, then the checkMeal of checkMealStatus (page.tsx 781-791)
mountResumeV2(s) ==
  LET r == s.mountCheck.resp
      sessionData == s.mountCheck.stored
      stage == s.mountCheck.stage
      d == [s EXCEPT !.mountCheck = [IdleCheck EXCEPT !.phase = "done"]]
      n == [s EXCEPT !.mountCheck.phase = "sent", !.mountCheck.resp = Null]
  IN  CASE stage = "status" ->
             IF r.kind = "network" THEN d ELSE [d EXCEPT !.mealUsedToday = r.used]
        [] r.kind = "network" -> [d EXCEPT !.localStorage = Null]
        [] stage = "checkMeal" /\ r.used ->
             [d EXCEPT !.mealUsedInfo =
                          [name |-> sessionData.name,
                           department |-> sessionData.department,
                           staffId |-> sessionData.id,
                           usedDate |-> OrElse(r.date, Today),
                           usedTime |-> OrElse(r.time, "Earlier today")],
                       !.localStorage = Null,
                       !.currentPage = "alreadyUsed"]
        [] stage = "checkMeal" -> [n EXCEPT !.mountCheck.stage = "verifySession"]
        [] sessionValid(r) ->
             [n EXCEPT !.mountCheck.stage = "status", !.session = sessionData,
                       !.currentPage = "dashboard"]
        [] OTHER -> [d EXCEPT !.localStorage = Null, !.error = MsgSessionExpired]

mountResume(s) == IF s.variant = "V2" THEN mountResumeV2(s) ELSE mountResumeV3(s)

\* every answer the remote store can give to logMeal, and the failure of the request
VerifyResponses ==
  { [kind |-> "ok", message |-> ""],
    [kind |-> "fail", message |-> "Meal already logged for today"],
    [kind |-> "fail", message |-> ""],
    [kind |-> "network", message |-> ""] }

\* every answer to the checkMeal request of verifyMeal (V2): kind "fail" stands for
\* used: true
CheckResponses ==
  { [kind |-> "ok", message |-> ""],
    [kind |-> "fail", message |-> ""],
    [kind |-> "network", message |-> ""] }

\* verifyMeal up to its await fetch(logMeal); sess and used are the session and
\* mealUsedToday its closure captured, code the payload whose detection called it
verifyMeal(s, k, sess, used, code) ==
  IF sess = Null THEN [s EXCEPT !.currentPage = "login"]
  ELSE IF used THEN [s EXCEPT !.error = MsgAlreadyUsedToday]
  ELSE [s EXCEPT !.loading = TRUE,
                 !.verifies[k] = [phase |-> "sent", stage |-> "logMeal",
                                  session |-> sess, code |-> code, resp |-> Null]]

DoneVerify == [IdleVerify EXCEPT !.phase = "done"]

\* mutant: setError(result.message) without the fallback text
verifyMealResumeNoFallback(s, k) ==
  LET r == s.verifies[k].resp
      d == [s EXCEPT !.verifies[k] = DoneVerify]
  IN  CASE r.kind = "ok" ->
             [d EXCEPT !.mealUsedToday = TRUE, !.currentPage = "success",
                       !.loading = FALSE, !.redeemed = TRUE]
        [] r.kind = "fail" ->
             [d EXCEPT !.error = r.message, !.loading = FALSE]
        [] OTHER ->
             [d EXCEPT !.error = MsgLogConnect, !.loading = FALSE]

\* verifyMeal from the response on
verifyMealResume(s, k) ==
  LET r == s.verifies[k].resp
      d == [s EXCEPT !.verifies[k] = DoneVerify]
  IN  CASE r.kind = "ok" ->
             [d EXCEPT !.mealUsedToday = TRUE, !.currentPage = "success",
                       !.loading = FALSE, !.redeemed = TRUE]
        [] r.kind = "fail" ->
             [d EXCEPT !.error = OrElse(r.message, MsgLogFailed), !.loading = FALSE]
        [] OTHER ->
             [d EXCEPT !.error = MsgLogConnect, !.loading = FALSE]

requestAnimationFrame(s, k) ==
  [s EXCEPT !.raf = Append(@, k), !.animationFrameRef = k]

\* mutant: expectedCode.startsWith(detectedCode) in place of ===
IsExpectedCodePrefix(data) ==
  /\ Len(trim(data)) > 0
  /\ Len(trim(data)) <= Len(trim(CAFETERIA_QR_CODE))
  /\ trim(data) = SubSeq(trim(CAFETERIA_QR_CODE), 1, Len(trim(data)))

\* detectedCode === expectedCode
IsExpectedCode(data) == trim(data) = trim(CAFETERIA_QR_CODE)

\* mutant: the message without the timer that clears it
invalidQRSticky(s) == [s EXCEPT !.error = MsgInvalidQR]

\* the mismatch branch: the message and the timer that clears it
invalidQR(s) == [s EXCEPT !.error = MsgInvalidQR, !.errorTimers = @ + 1]

\* mutant: a sample without a payload ends the loop
keepPollingOnce(s, k) == [s EXCEPT !.tasks[k] = DeadTask]

\* the end of detectFrame when no payload was decoded (page.tsx 277)
keepPolling(s, k) == requestAnimationFrame(s, k)

\* mutant: every animation frame is sampled
throttledNever(elapsed) == FALSE

\* timestamp - lastScanTime < scanInterval
throttled(elapsed) == elapsed < scanInterval

\* one call of detectFrame for the loop of task k; scene is what the decoder
\* would report for the frame now in front of the camera
detectFrame(s, k, scene) ==
  LET t == s.tasks[k]
      elapsed == IF t.since + FrameStep >= scanInterval
                 THEN scanInterval ELSE t.since + FrameStep
  IN  IF throttled(elapsed)
      THEN requestAnimationFrame([s EXCEPT !.tasks[k].since = elapsed], k)
      ELSE
        LET s0 == [s EXCEPT !.tasks[k].since = 0] IN
        IF /\ s.videoSrc[t.vid] # 0
           /\ s.script = "loaded"
           /\ scene.kind = "code"
           /\ scene.data # <<>>
        THEN
          LET s1 == stopQRScanner(s0, t.cCam)
              s2 == [s1 EXCEPT !.tasks[k] = DeadTask]
          IN  IF IsExpectedCode(scene.data)
              THEN verifyMeal(s2, k, t.cSession, t.cUsed, scene.data)
              ELSE invalidQR(s2)
        ELSE keepPolling(s0, k)

RECURSIVE RunFrame(_, _)
RunFrame(s, scene) ==
  IF s.frame = <<>> THEN s
  ELSE RunFrame(detectFrame([s EXCEPT !.frame = Tail(@)], Head(s.frame), scene), scene)

\* mutant: startQRScanner without the test of jsQRLoaded
startQRScannerUngated(s, k) ==
  [s EXCEPT !.error = "",
            !.tasks[k] = [IdleTask EXCEPT !.phase = "gum",
                                          !.cCam = s.cameraStream,
                                          !.cSession = s.session,
                                          !.cUsed = s.mealUsedToday]]

\* startQRScanner up to its await getUserMedia
startQRScanner(s, k) ==
  IF ~s.jsQRLoaded THEN [s EXCEPT !.error = MsgStillLoading]
  ELSE [s EXCEPT !.error = "",
                 !.tasks[k] = [IdleTask EXCEPT !.phase = "gum",
                                               !.cCam = s.cameraStream,
                                               !.cSession = s.session,
                                               !.cUsed = s.mealUsedToday]]

\* startQRScanner of V2 up to its await getUserMedia (page.tsx 1081-1096)
startQRScannerV2(s, k) ==
  IF ~s.jsQRLoaded THEN [s EXCEPT !.error = MsgStillLoading]
  ELSE [s EXCEPT !.error = "", !.showQRScanner = TRUE,
                 !.tasks[k] = [IdleTask EXCEPT !.phase = "gum",
                                               !.cCam = s.cameraStream,
                                               !.cSession = s.session,
                                               !.cUsed = s.mealUsedToday]]

\* verifyMeal of V2 up to its await fetch(checkMeal) (page.tsx 944-963)
verifyMealV2(s, v, sess, used, code) ==
  IF sess = Null THEN [s EXCEPT !.currentPage = "login"]
  ELSE IF used THEN [s EXCEPT !.error = MsgAlreadyUsedToday]
  ELSE [s EXCEPT !.loading = TRUE,
                 !.verifies[v] = [phase |-> "sent", stage |-> "checkMeal",
                                  session |-> sess, code |-> code, resp |-> Null]]

\* verifyMeal of V2 from a response on, the wait for minLoadTime included
\* (page.tsx 964-1005)
verifyMealResumeV2(s, v) ==
  LET r == s.verifies[v].resp
      d == [s EXCEPT !.verifies[v] = DoneVerify]
  IN  CASE r.kind = "network" ->
             [d EXCEPT !.error = MsgLogConnectV2, !.loading = FALSE]
        [] s.verifies[v].stage = "checkMeal" /\ r.kind = "fail" ->
             [d EXCEPT !.error = MsgAlreadyUsedToday, !.mealUsedToday = TRUE,
                       !.loading = FALSE]
        [] s.verifies[v].stage = "checkMeal" ->
             [s EXCEPT !.verifies[v].phase = "sent", !.verifies[v].stage = "logMeal",
                       !.verifies[v].resp = Null]
        [] r.kind = "ok" ->
             [d EXCEPT !.mealUsedToday = TRUE, !.currentPage = "success",
                       !.loading = FALSE, !.redeemed = TRUE]
        [] OTHER ->
             [d EXCEPT !.error = OrElse(r.message, MsgLogFailed), !.loading = FALSE]

invalidQRV2(s) == [s EXCEPT !.error = MsgInvalidQRV2, !.errorTimers = @ + 1]

\* one call of the setInterval callback of task k (page.tsx 1040-1078); v: the
\* verifyMeal call it may start
detectTick(s, k, v, scene) ==
  LET t == s.tasks[k] IN
  IF /\ s.videoSrc[t.vid] # 0
     /\ s.script = "loaded"
     /\ scene.kind = "code"
     /\ scene.data # <<>>
  THEN
    LET s1 == IF s.detectIntervalRef # 0
              THEN [clearInterval(s, s.detectIntervalRef)
                      EXCEPT !.detectIntervalRef = 0]
              ELSE s
        s2 == stopQRScannerV2(s1, t.cCam)
    IN  IF IsExpectedCode(scene.data)
        THEN verifyMealV2(s2, v, t.cSession, t.cUsed, scene.data)
        ELSE invalidQRV2(s2)
  ELSE s

InFlight == {"sent", "replied", "wait"}

\* history: a logout has run while these requests were in flight
MarkStale(s) ==
  [s EXCEPT !.stale =
     [logins |-> @.logins \cup {k \in DOMAIN s.logins : s.logins[k].phase \in InFlight},
      verifies |-> @.verifies \cup
                     {k \in DOMAIN s.verifies : s.verifies[k].phase \in InFlight},
      mount |-> @.mount \/ s.mountCheck.phase \in InFlight]]

\* c: the state of the render whose handleLogout is called (page.tsx 323-337)
handleLogoutV1(s, c) ==
  LET s1 == [MarkStale(s) EXCEPT !.loading = TRUE]
      s2 == [s1 EXCEPT !.session = Null, !.mealUsedToday = FALSE,
                       !.staffId = <<>>, !.surname = <<>>, !.error = "",
                       !.mealUsedInfo = Null]
      s3 == stopQRScanner(s2, c.cameraStream)
  IN  [s3 EXCEPT !.loading = FALSE, !.currentPage = "login", !.redeemed = FALSE]

\* (part_000 353-373)
handleLogoutV3(s, c) ==
  LET s0 == [MarkStale(s) EXCEPT !.loading = TRUE]
      s1 == IF c.session # Null /\ ~c.mealUsedToday
            THEN [s0 EXCEPT !.outbox = @ \cup {[action |-> "unregisterSession",
                                                staffId |-> c.session.id,
                                                sessionId |-> c.session.sessionId]}]
            ELSE s0
      s2 == [s1 EXCEPT !.localStorage = Null, !.session = Null,
                       !.mealUsedToday = FALSE,
                       !.staffId = <<>>, !.surname = <<>>, !.error = "",
                       !.mealUsedInfo = Null]
      s3 == stopQRScanner(s2, c.cameraStream)
  IN  [s3 EXCEPT !.loading = FALSE, !.currentPage = "login", !.redeemed = FALSE]

\* handleLogout of V2 after the wait that fills minLoadTime (page.tsx 1148-1149)
handleLogoutFinishV2(s) ==
  [s EXCEPT !.loading = FALSE, !.currentPage = "login", !.redeemed = FALSE,
            !.logout = IdleLogout]

\* handleLogout of V2 from the end of its unregisterSession request, or from its
\* start when it sends none, to that wait (page.tsx 1133-1146); cam: the
\* cameraStream its stopQRScanner captured, w: the wait is needed
handleLogoutClearV2(s, cam, w) ==
  LET s2 == [MarkStale(s) EXCEPT !.localStorage = Null, !.session = Null,
                      !.mealUsedToday = FALSE,
                      !.staffId = <<>>, !.surname = <<>>, !.error = "",
                      !.mealUsedInfo = Null]
      s3 == stopQRScannerV2(s2, cam)
  IN  IF w THEN [s3 EXCEPT !.logout = [phase |-> "wait", cCam |-> 0]]
      ELSE handleLogoutFinishV2(s3)

\* handleLogout of V2 up to its first await (page.tsx 1120-1131)
handleLogoutV2(s, c) ==
  IF c.session # Null /\ ~c.mealUsedToday
  THEN [s EXCEPT !.loading = TRUE,
                 !.outbox = @ \cup {[action |-> "unregisterSession",
                                     staffId |-> c.session.id,
                                     sessionId |-> c.session.sessionId]},
                 !.logout = [phase |-> "unregister", cCam |-> c.cameraStream]]
  ELSE handleLogoutClearV2([s EXCEPT !.loading = TRUE], c.cameraStream, TRUE)

handleLogout(s, c) ==
  CASE s.variant = "V1" -> handleLogoutV1(s, c)
    [] s.variant = "V2" -> handleLogoutV2(s, c)
    [] OTHER -> handleLogoutV3(s, c)

\* the callback of setTimeout(() => setError(''), 5000)
clearError(s) == [s EXCEPT !.error = "", !.errorTimers = @ - 1]

\* unmounting: the ref of the <video> is nulled and the cleanup of the
\* [cameraStream] effect of the last render runs
teardown(s) ==
  LET u == [s EXCEPT !.mounted = FALSE, !.videoRef = 0]
  IN  IF s.variant = "V2"
      THEN Collect(KeepReactState(u, stopQRScannerV2(u, s.cameraStream)))
      ELSE Collect(cleanupEffect(u, s.cameraStream))

\* the Cancel Scan button calls the stopQRScanner of the render it is in
cancelScan(s) ==
  IF s.variant = "V2" THEN stopQRScannerV2(s, s.cameraStream)
  ELSE stopQRScanner(s, s.cameraStream)

backToLogin(s) ==
  [s EXCEPT !.mealUsedInfo = Null, !.staffId = <<>>, !.surname = <<>>,
            !.currentPage = "login"]


\* ----------------------------------------------------------------- actions
Step(new) == Apply(Commit(St, new))

\* the number of scans the user opens is bounded per variant
ScanBound ==
  CASE variant = "V3" -> MaxScansV3
    [] mountCheck.phase # "idle" -> MaxScansStored
    [] OTHER -> MaxScans

\* and so is the number of logins: in V2, and when the component starts with a
\* stored session
LoginBound ==
  CASE variant = "V2" -> MaxLoginsV2
    [] mountCheck.phase # "idle" -> MaxLoginsStored
    [] OTHER -> MaxLogins

HasIdle(f) == \E k \in DOMAIN f : f[k].phase = "idle"
FirstIdle(f) ==
  CHOOSE k \in DOMAIN f : f[k].phase = "idle" /\ \A j \in DOMAIN f : j < k => f[j].phase # "idle"

\* the jsQR <script> element: onload, onerror and the fallback element (page.tsx 72-89)
ScriptLoad ==
  /\ script \in {"primary", "fallback"}
  /\ Step([St EXCEPT !.script = "loaded", !.jsQRLoaded = TRUE])

ScriptError ==
  /\ script \in {"primary", "fallback"}
  /\ Step([St EXCEPT !.script = IF script = "primary" THEN "fallback" ELSE "failed"])

ChangeStaffId ==
  \E txt \in TypedStaffIds :
    /\ mounted /\ currentPage = "login"
    /\ Step([St EXCEPT !.staffId = IF variant = "V2" THEN txt ELSE toUpperCase(txt)])

ChangeSurname ==
  \E txt \in TypedSurnames :
    /\ mounted /\ currentPage = "login"
    /\ Step([St EXCEPT !.surname = IF variant = "V2" THEN txt ELSE toUpperCase(txt)])

\* V1: the login form is submitted; both fields are required and the submit button
\* is disabled while loading (page.tsx 379-443).  V3: the Login button, disabled
\* while loading (part_000 443-449)
SubmitLogin ==
  /\ mounted /\ currentPage = "login" /\ ~loading
  /\ variant = "V1" => staffId # <<>> /\ surname # <<>>
  /\ HasIdle(logins) /\ FirstIdle(logins) <= LoginBound
  /\ Step(IF variant = "V2" THEN handleLoginV2(St, FirstIdle(logins))
          ELSE handleLogin(St, FirstIdle(logins)))

\* Enter in one of the two login fields calls handleLogin (part_000 414, 429)
PressEnter ==
  /\ variant # "V1"
  /\ mounted /\ currentPage = "login"
  /\ HasIdle(logins) /\ FirstIdle(logins) <= LoginBound
  /\ Step(IF variant = "V2" THEN handleLoginV2(St, FirstIdle(logins))
          ELSE handleLogin(St, FirstIdle(logins)))

\* the remote store answers the two requests of the session check, or one fails
MountReply ==
  \E r \in MountResponses :
    /\ mountCheck.phase = "sent"
    /\ Step([St EXCEPT !.mountCheck.phase = "replied", !.mountCheck.resp = r])

MountResume ==
  /\ mountCheck.phase = "replied"
  /\ Step(mountResume(St))

\* the remote store answers a batchLogin request, or the request fails
LoginReply ==
  \E k \in DOMAIN logins :
   \E r \in (IF variant = "V2" THEN LoginResponsesV2(logins[k].stage, logins[k].id)
             ELSE LoginResponses(logins[k].id)) :
    /\ logins[k].phase = "sent"
    /\ Step([St EXCEPT !.logins[k].phase = "replied", !.logins[k].resp = r])

LoginResume ==
  \E k \in DOMAIN logins, w \in (IF variant = "V2" THEN BOOLEAN ELSE {FALSE}) :
    /\ logins[k].phase = "replied"
    /\ Step(handleLoginResume(St, k, w))

\* V2: the timer that fills minLoadTime fires
LoginWait ==
  \E k \in DOMAIN logins :
    /\ logins[k].phase = "wait"
    /\ Step(handleLoginWaitV2(St, k))

PageTimer ==
  /\ pageTimers # <<>>
  /\ Step([St EXCEPT !.currentPage = Head(pageTimers), !.pageTimers = Tail(@)])

\* the scan button: shown on the dashboard while the scanner is closed, disabled
\* until the decoder is loaded and while loading (page.tsx 518-528)
ClickScan ==
  /\ mounted /\ currentPage = "dashboard" /\ ~mealUsedToday /\ ~showQRScanner
  /\ jsQRLoaded
  /\ variant # "V2" => ~loading
  /\ HasIdle(tasks) /\ FirstIdle(tasks) <= ScanBound
  /\ Step(IF variant = "V2" THEN startQRScannerV2(St, FirstIdle(tasks))
          ELSE startQRScanner(St, FirstIdle(tasks)))

\* getUserMedia resolves: startQRScanner goes on to its setTimeout(..., 200)
CameraGranted ==
  \E k \in StreamIds :
    /\ tasks[k].phase = "gum"
    /\ Step([St EXCEPT !.active = @ \cup {k}, !.cameraStream = k,
                       !.showQRScanner = IF variant = "V2" THEN @ ELSE TRUE,
                       !.tasks[k].phase = "t200"])

CameraDenied ==
  \E k \in StreamIds :
    /\ tasks[k].phase = "gum"
    /\ Step([St EXCEPT !.error = MsgCameraDenied, !.showQRScanner = FALSE,
                       !.tasks[k] = DeadTask])

\* the 200 ms timer of startQRScanner (page.tsx 303-315)
AttachVideo ==
  \E k \in StreamIds :
    /\ tasks[k].phase = "t200"
    /\ Step(IF videoRef # 0 /\ (variant = "V2" \/ k \in active)
            THEN [St EXCEPT !.videoSrc[videoRef] = k,
                            !.tasks[k].phase = "play", !.tasks[k].vid = videoRef]
            ELSE [St EXCEPT !.tasks[k] = DeadTask])

\* video.play() resolves while the element still plays this stream
PlayResolved ==
  \E k \in StreamIds :
    /\ tasks[k].phase = "play" /\ videoSrc[tasks[k].vid] = k
    /\ Step([St EXCEPT !.tasks[k].phase = "t300", !.tasks[k].vid = 0])

PlayRejected ==
  \E k \in StreamIds :
    /\ tasks[k].phase = "play"
    /\ Step([St EXCEPT !.error = MsgVideoFailed, !.tasks[k] = DeadTask])

\* setTimeout(startQRDetection, 300) fires; ctx: canvas.getContext returned a context
StartDetection ==
  \E k \in StreamIds, ctx \in BOOLEAN :
    /\ tasks[k].phase = "t300"
    /\ Step(CASE ~(videoRef # 0 /\ ctx) -> [St EXCEPT !.tasks[k] = DeadTask]
              [] variant = "V2" ->
                   [St EXCEPT !.tasks[k].phase = "interval",
                              !.tasks[k].vid = videoRef, !.detectIntervalRef = k]
              [] OTHER ->
                   requestAnimationFrame(
                     [St EXCEPT !.tasks[k].phase = "loop", !.tasks[k].vid = videoRef,
                                !.tasks[k].since = scanInterval], k))

\* V2: the callback of setInterval(..., 250) of one running detection runs
IntervalTick ==
  \E k \in StreamIds, scene \in Scenes :
    /\ tasks[k].phase = "interval"
    /\ HasIdle(verifies)
    /\ Step(detectTick(St, k, FirstIdle(verifies), scene))

\* the browser runs the animation-frame callbacks scheduled for one frame
AnimationFrame ==
  \E scene \in Scenes :
    /\ raf # <<>>
    /\ Step(RunFrame([St EXCEPT !.frame = raf, !.raf = <<>>], scene))

ClickCancelScan ==
  /\ Visible(St)
  /\ Step(cancelScan(St))

\* the remote store answers a logMeal request, or the request fails
VerifyReply ==
  \E k \in StreamIds :
   \E r \in (IF verifies[k].stage = "checkMeal" THEN CheckResponses
             ELSE VerifyResponses) :
    /\ verifies[k].phase = "sent"
    /\ Step([St EXCEPT !.verifies[k].phase = "replied", !.verifies[k].resp = r])

VerifyResume ==
  \E k \in StreamIds :
    /\ verifies[k].phase = "replied"
    /\ Step(IF variant = "V2" THEN verifyMealResumeV2(St, k)
            ELSE verifyMealResume(St, k))

\* the Logout buttons of the dashboard and of the success page, disabled while loading
ClickLogout ==
  /\ mounted /\ currentPage \in {"dashboard", "success"} /\ ~loading
  /\ logout.phase = "idle"
  /\ Step(handleLogout(St, St))

\* V2: the unregisterSession request of handleLogout ends, either way
LogoutResume ==
  \E w \in BOOLEAN :
    /\ logout.phase = "unregister"
    /\ Step(handleLogoutClearV2(St, logout.cCam, w))

\* V2: the timer that fills minLoadTime fires
LogoutFinish ==
  /\ logout.phase = "wait"
  /\ Step(handleLogoutFinishV2(St))

ClickBackToLogin ==
  /\ mounted /\ currentPage = "alreadyUsed"
  /\ Step(backToLogin(St))

ErrorTimer ==
  /\ errorTimers > 0
  /\ Step(clearError(St))

\* the component is torn down: React nulls the refs and runs the effect cleanups
Unmount ==
  /\ mounted
  /\ Apply(teardown(St))

Start(s) ==
  /\ variant = s.variant
  /\ mounted = s.mounted
  /\ script = s.script
  /\ currentPage = s.currentPage
  /\ session = s.session
  /\ staffId = s.staffId
  /\ surname = s.surname
  /\ error = s.error
  /\ mealUsedToday = s.mealUsedToday
  /\ loading = s.loading
  /\ showQRScanner = s.showQRScanner
  /\ cameraStream = s.cameraStream
  /\ mealUsedInfo = s.mealUsedInfo
  /\ jsQRLoaded = s.jsQRLoaded
  /\ animationFrameRef = s.animationFrameRef
  /\ detectIntervalRef = s.detectIntervalRef
  /\ logout = s.logout
  /\ videoRef = s.videoRef
  /\ videoSrc = s.videoSrc
  /\ active = s.active
  /\ raf = s.raf
  /\ tasks = s.tasks
  /\ verifies = s.verifies
  /\ logins = s.logins
  /\ pageTimers = s.pageTimers
  /\ errorTimers = s.errorTimers
  /\ localStorage = s.localStorage
  /\ mountCheck = s.mountCheck
  /\ outbox = s.outbox
  /\ redeemed = s.redeemed
  /\ stale = s.stale

InitV1 == Start(InitState("V1", Null))
InitV2 == \E stored \in {Null, StoredSessionV2} : Start(InitState("V2", stored))
InitV3 == \E stored \in {Null, StoredSession} : Start(InitState("V3", stored))
Init == InitV1 \/ InitV2 \/ InitV3

Next ==
  \/ ScriptLoad \/ ScriptError
  \/ ChangeStaffId \/ ChangeSurname \/ SubmitLogin \/ PressEnter
  \/ LoginReply \/ LoginResume \/ LoginWait \/ MountReply \/ MountResume
  \/ IntervalTick \/ LogoutResume \/ LogoutFinish
  \/ PageTimer
  \/ ClickScan \/ CameraGranted \/ CameraDenied \/ AttachVideo
  \/ PlayResolved \/ PlayRejected \/ StartDetection \/ AnimationFrame
  \/ ClickCancelScan \/ VerifyReply \/ VerifyResume
  \/ ClickLogout \/ ClickBackToLogin \/ ErrorTimer \/ Unmount

Spec == Init /\ [][Next]_vars

\* ------------------------------------------------------------------ claims
\* C1: the page becomes success only in the step in which a verifyMeal call,
\* started by a decoded payload whose trimmed text is CAFETERIA_QR_CODE, handles a
\* logMeal response that reports success.
C1_SuccessOnlyByVerifiedScan ==
  [][(currentPage' = "success" /\ currentPage # "success") =>
       \E k \in StreamIds :
         /\ verifies[k].phase = "replied"
         /\ verifies[k].stage = "logMeal"
         /\ verifies[k].resp.kind = "ok"
         /\ trim(verifies[k].code) = CAFETERIA_QR_CODE
         /\ verifies'[k].phase = "done"]_vars

C1_Witness == mounted /\ currentPage = "success" /\ mealUsedToday /\ redeemed

\* C2: once the page has become success, no scan is started and no logMeal
\* request is sent until a logout has run.
C2_NoSecondRedemptionBeforeLogout ==
  [][redeemed =>
       /\ \A k \in StreamIds : tasks'[k].phase = "gum" => tasks[k].phase = "gum"
       /\ \A k \in StreamIds :
            (verifies'[k].phase = "sent" /\ verifies'[k].stage = "logMeal") =>
              (verifies[k].phase = "sent" /\ verifies[k].stage = "logMeal")]_vars

\* C3: when handleLogin handles a batchLogin response that reports success with a
\* staff record, the session is built from that record with the uppercased, trimmed
\* staff id that was entered, mealUsedToday is false, and the page is dashboard or
\* the timer that sets it to dashboard is the last one pending.
C3_LoginSuccessBuildsSession ==
  [][\A k \in DOMAIN logins :
       (/\ mounted
        /\ logins[k].phase = "replied"
        /\ logins[k].stage = "batchLogin"
        /\ logins[k].resp.kind = "ok"
        /\ logins[k].resp.staff # Null
        /\ logins'[k].phase = "done") =>
         /\ session' # Null
         /\ session'.id = trim(toUpperCase(logins[k].entered))
         /\ session'.name = logins[k].resp.staff.name
         /\ session'.department = logins[k].resp.staff.department
         /\ session'.price = logins[k].resp.staff.price
         /\ mealUsedToday' = FALSE
         /\ \/ currentPage' = "dashboard"
            \/ /\ pageTimers' # <<>>
               /\ pageTimers'[Len(pageTimers')] = "dashboard"]_vars

C3_Witness ==
  /\ variant # "V2" /\ mounted /\ currentPage = "dashboard" /\ ~mealUsedToday
  /\ mountCheck.phase = "idle" /\ \E k \in DOMAIN logins : logins[k].phase = "done"
  /\ session # Null /\ session.id = <<"E","N","1">> /\ session.name = "Ada"

\* C4: when handleLogin handles a response with errorType ALREADY_USED, it creates
\* no session, mealUsedInfo carries the name, department, date and time of the
\* record in the response, and the page is alreadyUsed or the timer that sets it
\* to alreadyUsed is the last one pending.
C4_AlreadyUsedShowsRecord ==
  [][\A k \in DOMAIN logins :
       (/\ mounted
        /\ logins[k].phase = "replied"
        /\ logins[k].stage = "batchLogin"
        /\ logins[k].resp.kind = "fail"
        /\ logins[k].resp.errorType = "ALREADY_USED"
        /\ logins[k].resp.mealInfo # Null
        /\ logins'[k].phase = "done") =>
         /\ session' = session
         /\ mealUsedInfo' # Null
         /\ mealUsedInfo'.name = logins[k].resp.mealInfo.name
         /\ mealUsedInfo'.department = logins[k].resp.mealInfo.department
         /\ mealUsedInfo'.usedDate = logins[k].resp.mealInfo.date
         /\ mealUsedInfo'.usedTime = logins[k].resp.mealInfo.time
         /\ \/ currentPage' = "alreadyUsed"
            \/ /\ pageTimers' # <<>>
               /\ pageTimers'[Len(pageTimers')] = "alreadyUsed"]_vars

C4_Witness ==
  /\ variant # "V2" /\ mounted /\ currentPage = "alreadyUsed" /\ session = Null
  /\ mealUsedInfo # Null /\ mealUsedInfo.usedTime = "12:30 PM"

\* C5: when the batchLogin request fails, or its answer cannot be read, handleLogin
\* leaves the page and the session as they are (login and null), schedules no page
\* change, sets the connection-failure message and sets loading to false.
C5_LoginNetworkErrorFailsClosed ==
  [][\A k \in DOMAIN logins :
       (/\ mounted
        /\ logins[k].phase = "replied"
        /\ logins[k].stage = "batchLogin"
        /\ logins[k].resp.kind = "network"
        /\ logins'[k].phase = "done") =>
         /\ currentPage' = currentPage
         /\ pageTimers' = pageTimers
         /\ session' = session
         /\ error' = MsgConnectionFailed
         /\ loading' = FALSE]_vars

C5_Witness ==
  /\ variant # "V2" /\ mounted /\ currentPage = "login" /\ session = Null /\ pageTimers = <<>>
  /\ error = MsgConnectionFailed /\ ~loading

\* C6: when verifyMeal handles a logMeal response that reports failure, or the
\* failure of the request, the page and mealUsedToday stay as they are (dashboard
\* and false), the error is not empty and loading is false.
C6_LogMealFailureStaysOnDashboard ==
  [][\A k \in StreamIds :
       (/\ mounted
        /\ verifies[k].phase = "replied"
        /\ verifies[k].stage = "logMeal"
        /\ verifies[k].resp.kind \in {"fail", "network"}
        /\ verifies'[k].phase = "done") =>
         /\ currentPage' = currentPage
         /\ mealUsedToday' = mealUsedToday
         /\ error' # ""
         /\ loading' = FALSE]_vars

C6_Witness ==
  /\ mounted /\ currentPage = "dashboard" /\ ~mealUsedToday /\ ~loading
  /\ error \in {MsgLogFailed, MsgLogConnect, "Meal already logged for today"}

AfterFrame(scene) == Commit(St, RunFrame([St EXCEPT !.frame = raf, !.raf = <<>>], scene))

\* in the next animation frame some detection loop decodes the payload of scene
\* (a loop ends only by decoding a payload)
Decodes(scene) ==
  /\ raf # <<>>
  /\ scene.kind = "code"
  /\ \E k \in StreamIds :
       tasks[k].phase = "loop" /\ AfterFrame(scene).tasks[k].phase = "dead"

AfterTick(k, scene) == Commit(St, detectTick(St, k, FirstIdle(verifies), scene))

\* the interval callback of task k decodes the payload of scene
TickDecodes(k, scene) ==
  /\ tasks[k].phase = "interval"
  /\ scene.kind = "code"
  /\ AfterTick(k, scene) # Commit(St, St)

\* C7: when a frame is decoded to a payload whose trimmed text is not the
\* expected string, no logMeal request is sent, the page stays as it is
\* (dashboard), the invalid-QR message is shown with a timer pending that clears it;
\* whenever that message is shown such a timer is pending, and the timer clears it.
C7_MismatchShowsTransientError ==
  /\ \A scene \in Scenes :
       (mounted /\ Decodes(scene) /\ trim(scene.data) # CAFETERIA_QR_CODE) =>
         /\ AfterFrame(scene).verifies = verifies
         /\ AfterFrame(scene).currentPage = currentPage
         /\ AfterFrame(scene).error = MsgInvalidQR
         /\ AfterFrame(scene).errorTimers > 0
  /\ \A scene \in Scenes, k \in StreamIds :
       (mounted /\ TickDecodes(k, scene) /\ trim(scene.data) # CAFETERIA_QR_CODE) =>
         /\ AfterTick(k, scene).verifies = verifies
         /\ AfterTick(k, scene).currentPage = currentPage
         /\ AfterTick(k, scene).error = MsgInvalidQRV2
         /\ AfterTick(k, scene).errorTimers > 0
  /\ (mounted /\ error \in {MsgInvalidQR, MsgInvalidQRV2}) => errorTimers > 0
  /\ (mounted /\ errorTimers > 0) => Commit(St, clearError(St)).error = ""

C7_Witness ==
  /\ mounted /\ currentPage = "dashboard" /\ error = MsgInvalidQR /\ errorTimers > 0
  /\ \A k \in StreamIds : verifies[k].phase = "idle"

\* handleLogout of V1 and V3 run once, and run again on what the first run left
LogoutOnce == Commit(St, handleLogout(St, St))
LogoutTwice == Commit(LogoutOnce, handleLogout(LogoutOnce, LogoutOnce))

Cleared(n) ==
  /\ n.currentPage = "login" /\ n.session = Null /\ n.mealUsedInfo = Null
  /\ n.error = "" /\ n.mealUsedToday = FALSE

\* C8: handleLogout on dashboard and on success, and Back to Login on alreadyUsed,
\* end with page login, session null, mealUsedInfo null, error empty and
\* mealUsedToday false.
C8_LeavingClearsEverything ==
  /\ (mounted /\ variant # "V2" /\ currentPage \in {"dashboard", "success"}) =>
       Cleared(LogoutOnce)
  /\ (mounted /\ currentPage = "alreadyUsed") =>
       Cleared(Commit(St, backToLogin(St)))

\* C9: running handleLogout a second time changes none of page, session,
\* mealUsedToday, error, mealUsedInfo, scanner visibility, camera stream and
\* persisted session.
C9_LogoutIdempotent ==
  (mounted /\ variant # "V2") =>
    /\ LogoutTwice.currentPage = LogoutOnce.currentPage
    /\ LogoutTwice.session = LogoutOnce.session
    /\ LogoutTwice.mealUsedToday = LogoutOnce.mealUsedToday
    /\ LogoutTwice.error = LogoutOnce.error
    /\ LogoutTwice.mealUsedInfo = LogoutOnce.mealUsedInfo
    /\ LogoutTwice.showQRScanner = LogoutOnce.showQRScanner
    /\ LogoutTwice.cameraStream = LogoutOnce.cameraStream
    /\ LogoutTwice.active = LogoutOnce.active
    /\ LogoutTwice.localStorage = LogoutOnce.localStorage

\* a logout has run on a session with the scanner open
C9_Witness ==
  /\ variant # "V2" /\ mounted /\ currentPage = "dashboard" /\ ~loading
  /\ showQRScanner /\ cameraStream # 0 /\ cameraStream \in active
  /\ LogoutOnce.currentPage = "login" /\ LogoutOnce.active = {}

Released(n) ==
  /\ n.active = {}
  /\ n.raf = <<>>
  /\ \A k \in StreamIds : n.tasks[k].phase # "interval"

\* C10: after a successful scan, after Cancel Scan, after logout and after the
\* component is torn down, no stream has a live track and no animation-frame
\* callback is scheduled.
C10_ExitPathsReleaseCamera ==
  /\ \A scene \in Scenes :
       (mounted /\ Decodes(scene) /\ trim(scene.data) = CAFETERIA_QR_CODE) =>
         Released(AfterFrame(scene))
  /\ Visible(St) => Released(Commit(St, cancelScan(St)))
  /\ (mounted /\ variant # "V2" /\ currentPage \in {"dashboard", "success"}
        /\ ~loading) =>
       Released(LogoutOnce)
  /\ mounted => Released(teardown(St))

\* a step that resumes, with its answer, a request that was in flight when
\* handleLogout ran
LateResume ==
  \/ \E k \in stale.logins :
        logins[k].phase \in {"replied", "wait"} /\ logins'[k] # logins[k]
  \/ \E k \in stale.verifies :
        verifies[k].phase = "replied" /\ verifies'[k] # verifies[k]
  \/ stale.mount /\ mountCheck.phase = "replied" /\ mountCheck' # mountCheck

\* C11: the answer of an authenticate, logMeal or stored-session request that
\* arrives after handleLogout changes nothing: the session, mealUsedToday and the
\* page stay as they are, and no page change is scheduled
C11_LateResponseHarmless ==
  [][LateResume =>
       /\ session' = session
       /\ mealUsedToday' = mealUsedToday
       /\ currentPage' = currentPage
       /\ pageTimers' = pageTimers]_vars

\* the requests of one kind that have been sent and whose answer has not been
\* handled yet
Outstanding(f) == {k \in DOMAIN f : f[k].phase \in {"sent", "replied"}}

\* C12: at most one login request and at most one logMeal request is outstanding
\* at any time
C12_OneRequestInFlight ==
  /\ Cardinality(Outstanding(logins)) <= 1
  /\ Cardinality({k \in Outstanding(verifies) : verifies[k].stage = "logMeal"}) <= 1

\* the request that registers or unregisters session x at the remote store
SessionRequest(a, x) == [action |-> a, staffId |-> x.id, sessionId |-> x.sessionId]

\* a step in which handleLogout starts (V2, V3: the components with registerSession)
LogoutStarts ==
  \/ variant = "V2" /\ logout.phase = "idle" /\ logout'.phase # "idle"
  \/ variant = "V3" /\ session # Null /\ session' = Null

\* C13: a logout from the dashboard of a session that was registered with
\* registerSession sends unregisterSession with the staff id and the session id of
\* that session
C13_LogoutUnregisters ==
  [][(/\ LogoutStarts
      /\ currentPage = "dashboard" /\ session # Null
      /\ SessionRequest("registerSession", session) \in outbox)
       => SessionRequest("unregisterSession", session) \in outbox']_vars

\* a step in which handleLogin handles the answer that the meal is already used
LoginDetectsUsed ==
  \E k \in DOMAIN logins :
    /\ logins[k].phase = "replied" /\ logins'[k] # logins[k]
    /\ logins[k].stage \in {"batchLogin", "validate"}
    /\ logins[k].resp.errorType = "ALREADY_USED"

\* a step in which the stored-session check handles the answer used: true
MountDetectsUsed ==
  /\ mountCheck.phase = "replied" /\ mountCheck' # mountCheck
  /\ mountCheck.stage \in {"both", "checkMeal"}
  /\ mountCheck.resp.kind # "network" /\ mountCheck.resp.used

\* a step in which the pre-check of verifyMeal (V2) handles the answer used: true
VerifyDetectsUsed ==
  \E k \in DOMAIN verifies :
    /\ verifies[k].phase = "replied" /\ verifies'[k] # verifies[k]
    /\ verifies[k].stage = "checkMeal" /\ verifies[k].resp.kind = "fail"

\* a step in which handleLogout has run to its end
LogoutEnds ==
  \/ variant = "V2" /\ logout.phase # "idle" /\ logout'.phase = "idle"
  \/ variant # "V2" /\ session # Null /\ session' = Null

\* C14: after handleLogout and after every detection of an already-used meal (at
\* login, by the stored-session check, by the pre-check of verifyMeal) the session
\* of the mounted component is null and no copy of it is in localStorage
C14_SessionDestroyed ==
  [][(/\ mounted'
      /\ LogoutEnds \/ LoginDetectsUsed \/ MountDetectsUsed \/ VerifyDetectsUsed)
       => (session' = Null /\ localStorage' = Null)]_vars

\* a step in which the Back to Login button of the alreadyUsed page is handled
Acknowledges == currentPage = "alreadyUsed" /\ currentPage' = "login"

\* C15: mealUsedInfo is written only when an already-used meal is detected, is null
\* once the acknowledgement or handleLogout has led back to the login page, and is
\* never set while the page is dashboard or success
C15_MealUsedInfoScoped ==
  [][/\ (mealUsedInfo' # mealUsedInfo /\ mealUsedInfo' # Null)
          => (LoginDetectsUsed \/ MountDetectsUsed)
     /\ (mounted' /\ (Acknowledges \/ LogoutEnds)) => mealUsedInfo' = Null
     /\ currentPage' \in {"dashboard", "success"} => mealUsedInfo' = Null]_vars

\* the page changes the state machine of the page allows
PageMoves ==
  { <<"login", "dashboard">>, <<"login", "alreadyUsed">>, <<"dashboard", "success">>,
    <<"dashboard", "login">>, <<"success", "login">>, <<"alreadyUsed", "login">> }

\* a step in which handleLogout sets the page
LogoutSetsPage ==
  \/ variant = "V2" /\ logout.phase = "wait" /\ logout'.phase = "idle"
  \/ variant # "V2" /\ session' = Null /\ ~mealUsedToday' /\ ~redeemed'
                    /\ stale' = MarkStale(St).stale

\* a step in which the Back to Login handler sets the page
AcknowledgeSetsPage == mealUsedInfo' = Null /\ staffId' = <<>> /\ surname' = <<>>

\* C16: the page is one of the four pages and changes only along login -> dashboard,
\* login -> alreadyUsed, dashboard -> success, dashboard -> login, success -> login
\* (by handleLogout only) and alreadyUsed -> login (by the acknowledgement only)
C16_PageStateMachine ==
  [][/\ currentPage' \in Pages
     /\ currentPage' # currentPage =>
          /\ <<currentPage, currentPage'>> \in PageMoves
          /\ currentPage = "success" => LogoutSetsPage
          /\ currentPage = "alreadyUsed" => AcknowledgeSetsPage]_vars

\* the three classifications of a failed login the claim names
Classes == {"INVALID", "ALREADY_USED", "TIME_EXPIRED"}

Classified(id) ==
  {r \in LoginResponses(id) : r.kind = "fail" /\ r.errorType \in Classes /\ ~Throws(r)}

\* the page and the error message the user is shown once handleLogin has handled
\* answer r to request k (V1 sets the page through its 100 ms timer)
LoginOutcome(k, r) ==
  LET a == [St EXCEPT !.logins[k].phase = "replied", !.logins[k].resp = r]
      n == Commit(St, handleLoginResume(a, k, FALSE))
  IN  <<IF n.pageTimers # pageTimers THEN n.pageTimers[Len(n.pageTimers)]
        ELSE n.currentPage,
        n.error>>

\* C17: whatever two answers of different classification (invalid credentials,
\* already redeemed, outside the time window) the store gives to a batchLogin
\* request, the (page, error message) pairs shown differ
C17_ThreeDistinctOutcomes ==
  \A k \in DOMAIN logins :
    (mounted /\ variant # "V2" /\ logins[k].phase = "sent") =>
      \A r1, r2 \in Classified(logins[k].id) :
        r1.errorType # r2.errorType => LoginOutcome(k, r1) # LoginOutcome(k, r2)

\* a step in which handleLogin ends on a failure the store reported (other than
\* the already-used answer, which leads to its own page) or on a failed request
LoginFails ==
  \E k \in DOMAIN logins :
    /\ logins[k].phase = "replied" /\ logins'[k].phase = "done"
    /\ logins[k].stage # "status"
    /\ \/ Throws(logins[k].resp)
       \/ logins[k].resp.kind = "fail" /\ logins[k].resp.errorType # "ALREADY_USED"

\* a step in which verifyMeal ends on a failure the store reported for logMeal or
\* on a failed request
VerifyFails ==
  \E k \in DOMAIN verifies :
    /\ verifies[k].phase = "replied" /\ verifies'[k].phase = "done"
    /\ \/ verifies[k].resp.kind = "network"
       \/ verifies[k].stage = "logMeal" /\ verifies[k].resp.kind = "fail"

\* no request is sent in the step
NothingSent ==
  /\ outbox' = outbox
  /\ \A k \in DOMAIN logins : logins'[k].phase = "sent" => logins[k].phase = "sent"
  /\ \A k \in DOMAIN verifies :
       verifies'[k].phase = "sent" => verifies[k].phase = "sent"
  /\ mountCheck'.phase = "sent" => mountCheck.phase = "sent"

\* C18: when handleLogin or verifyMeal ends on a failure (reported by the store or
\* of the request) in the mounted component, loading is false, no request is sent,
\* and what enables the same user action is as before: the page and the typed
\* fields for the login, the page, mealUsedToday, showQRScanner and jsQRLoaded for
\* the scan button
C18_FailureReenablesAction ==
  [][/\ (mounted' /\ LoginFails) =>
          /\ ~loading' /\ NothingSent
          /\ currentPage' = currentPage /\ staffId' = staffId /\ surname' = surname
     /\ (mounted' /\ VerifyFails) =>
          /\ ~loading' /\ NothingSent
          /\ currentPage' = currentPage /\ mealUsedToday' = mealUsedToday
          /\ showQRScanner' = showQRScanner /\ jsQRLoaded' = jsQRLoaded]_vars

\* after a login, a logMeal request has failed, no request is outstanding and the
\* scan button of the dashboard is enabled
C18_Witness ==
  /\ mounted /\ currentPage = "dashboard" /\ ~loading
  /\ ~mealUsedToday /\ ~showQRScanner /\ jsQRLoaded
  /\ error \in {MsgLogConnect, MsgLogConnectV2, MsgLogFailed}
  /\ \A k \in DOMAIN verifies : verifies[k].phase \in {"idle", "done"}
  /\ \E k \in DOMAIN logins : logins[k].phase = "done"

\* a step in which the second of the two decoder scripts fails to load
DecoderLoadFails == script # "failed" /\ script' = "failed"

\* C19: each kind of error leaves a message for the user: a failed login, a failed
\* logMeal call and the failure to load the decoder script from both URLs each
\* leave a non-empty error in the mounted component
C19_ErrorsAreShown ==
  [][(mounted' /\ (LoginFails \/ VerifyFails \/ DecoderLoadFails))
       => error' # ""]_vars

\* a step in which the getUserMedia call of a startQRScanner call is rejected
GetUserMediaRejected ==
  \E k \in StreamIds :
    /\ tasks[k].phase = "gum" /\ tasks'[k].phase = "dead"
    /\ active' = active /\ error' = MsgCameraDenied

\* C20: when getUserMedia is rejected, startQRScanner shows the camera-denied
\* message and leaves the scanner closed, no stream held, no detection loop
\* scheduled, and the page as it was
C20_CameraDeniedLeavesNothing ==
  [][(mounted' /\ GetUserMediaRejected) =>
       /\ error' = MsgCameraDenied /\ ~showQRScanner'
       /\ cameraStream' = 0 /\ active' = {}
       /\ raf' = <<>> /\ \A k \in StreamIds : tasks'[k].phase # "interval"
       /\ currentPage' = currentPage]_vars

\* the state after a call of startQRScanner that uses slot k
AfterStartScan(k) ==
  Commit(St, IF variant = "V2" THEN startQRScannerV2(St, k) ELSE startQRScanner(St, k))

\* C21: while jsQRLoaded is false the scan button is disabled, and a call of
\* startQRScanner sets the still-loading message and does nothing else: it requests
\* no camera, does not show the scanner and starts no detection loop
C21_ScanGatedOnDecoder ==
  (mounted /\ ~jsQRLoaded) =>
    /\ ~ENABLED ClickScan
    /\ \A k \in StreamIds :
         /\ AfterStartScan(k) = Commit(St, [St EXCEPT !.error = MsgStillLoading])
         /\ AfterStartScan(k).tasks = tasks
         /\ AfterStartScan(k).showQRScanner = showQRScanner
         /\ AfterStartScan(k).cameraStream = cameraStream
         /\ AfterStartScan(k).raf = raf

\* the dashboard is shown while the decoder script has not loaded
C21_Witness ==
  /\ mounted /\ ~jsQRLoaded /\ currentPage = "dashboard" /\ session # Null
  /\ ~mealUsedToday /\ ~loading /\ ~showQRScanner

\* what the decoder reports when it finds no payload, or throws
NoPayload == {sc \in Scenes : sc.kind # "code" \/ sc.data = <<>>}

\* the state after the Cancel Scan button
AfterCancel == Commit(St, cancelScan(St))

Samples(k, scene) ==
  \/ AfterFrame(scene).tasks[k].phase = "dead"
  \/ tasks[k].since # 0 /\ AfterFrame(scene).tasks[k].since = 0

\* C24: in the requestAnimationFrame loops (V1, V3) a loop samples a frame
\* only when at least scanInterval has passed since its previous sample, and
\* a call of detectFrame that comes sooner only puts the loop back in the
\* frame queue: nothing else but its elapsed time changes
C24_SamplingThrottled ==
  \A k \in StreamIds :
    (tasks[k].phase = "loop" /\ \E i \in DOMAIN raf : raf[i] = k) =>
      \A sc \in Scenes :
        /\ Samples(k, sc) => tasks[k].since + FrameStep >= scanInterval
        /\ tasks[k].since + FrameStep < scanInterval =>
             /\ detectFrame(St, k, sc) =
                  [St EXCEPT !.tasks[k].since = @ + FrameStep,
                             !.raf = Append(@, k), !.animationFrameRef = k]
             /\ (\A j \in StreamIds : tasks[j].phase = "loop" => j = k) =>
                  AfterFrame(sc) = [St EXCEPT !.tasks[k].since = @ + FrameStep,
                                              !.animationFrameRef = k]

\* a loop that sampled one frame ago is called again with the QR code in view
C24_Witness ==
  /\ mounted /\ showQRScanner /\ script = "loaded"
  /\ \E k \in StreamIds :
       /\ tasks[k].phase = "loop" /\ tasks[k].since = FrameStep
       /\ videoSrc[tasks[k].vid] # 0
       /\ \E i \in DOMAIN raf : raf[i] = k

\* C25: while the login page is shown no stream has a live track, no
\* animation-frame callback is scheduled and no detection interval runs, also
\* when getUserMedia resolves after handleLogout or Cancel Scan
C25_NoCameraOnLogin ==
  (mounted /\ currentPage = "login") => Released(St)

\* C26: whenever the dashboard or the success page is shown there is a
\* session
C26_PageImpliesSession ==
  (mounted /\ currentPage \in {"dashboard", "success"}) => session # Null

\* the callback of a 5-second timer set by a QR mismatch runs
ErrorTimerFires == mounted /\ mounted' /\ errorTimers' = errorTimers - 1

\* C27: the 5-second timer set by a QR mismatch erases no message other than
\* the invalid-QR message
C27_TimerClearsOnlyInvalidQR ==
  [][ErrorTimerFires => (error' = error \/ error \in {MsgInvalidQR, MsgInvalidQRV2})]_vars

\* the store's registry of active sessions, as a set of session ids, after it
\* has carried out one request: registerSession enters the session,
\* unregisterSession removes it
serveSessionRequest(registry, q) ==
  IF q.action = "registerSession"
  THEN registry \cup {q.sessionId}
  ELSE registry \ {q.sessionId}

\* the registry after the store has received the requests of `order` one
\* after the other, starting from `registry`
RECURSIVE Registry(_, _)
Registry(registry, order) ==
  IF order = <<>> THEN registry
  ELSE Registry(serveSessionRequest(registry, Head(order)), Tail(order))

\* the orders in which the store can receive the requests of Q: none of them
\* is awaited, so nothing orders their arrival
RECURSIVE Orders(_)
Orders(Q) ==
  IF Q = {} THEN {<<>>}
  ELSE UNION {{<<q>> \o o : o \in Orders(Q \ {q})} : q \in Q}

\* C28: in V3, once every registerSession and unregisterSession request sent
\* so far has been delivered, no session that was logged out (its
\* unregisterSession was sent) is registered, whatever the order of delivery
C28_LogoutLeavesNoRegistration ==
  variant = "V3" =>
    \A o \in Orders(outbox) :
      \A q \in outbox :
        q.action = "unregisterSession" => q.sessionId \notin Registry({}, o)

\* the stored-session check resumes with an answer (or a failure) after
\* handleLogin has created and persisted a new session
MountResumesAfterLogin ==
  /\ mounted /\ mounted'
  /\ mountCheck.phase = "replied" /\ mountCheck' # mountCheck
  /\ session # Null /\ session # mountCheck.stored
  /\ localStorage = session

\* C29: a stored-session check that resumes after a login has completed
\* keeps the new session in local storage and in memory and does not move
\* the page to alreadyUsed
C29_MountCheckKeepsNewLogin ==
  [][MountResumesAfterLogin =>
       /\ localStorage' = localStorage
       /\ session' = session
       /\ currentPage' = "alreadyUsed" => currentPage = "alreadyUsed"]_vars

\* the stored-session check resumes with an answer or a failure
MountCheckStep ==
  /\ mounted /\ mounted'
  /\ mountCheck.phase = "replied" /\ mountCheck' # mountCheck

\* the step restores the stored session to the dashboard
Restored ==
  /\ session # mountCheck.stored
  /\ session' = mountCheck.stored /\ currentPage' = "dashboard"

\* the answer in hand reports a redemption today
ReportsUsed ==
  /\ mountCheck.stage \in {"both", "checkMeal"}
  /\ mountCheck.resp.kind = "ok" /\ mountCheck.resp.used

\* the answer in hand ends the check without restoring: a redemption, an
\* invalid session id or a network failure
NotRestoring ==
  /\ mountCheck.stage \in {"both", "checkMeal", "verifySession"}
  /\ \/ mountCheck.resp.kind = "network"
     \/ mountCheck.stage \in {"both", "checkMeal"} /\ mountCheck.resp.used
     \/ mountCheck.stage \in {"both", "verifySession"} /\ ~mountCheck.resp.valid

\* C30: the stored-session check restores the session to the dashboard only
\* on answers that report no redemption today and a valid session id; on a
\* reported redemption the page becomes alreadyUsed with the name, department
\* and staff id of the stored session; every outcome that does not restore
\* removes the stored session and sets no session
C30_MountRestoresOnlyValid ==
  [][MountCheckStep =>
       /\ Restored =>
            /\ mountCheck.resp.kind = "ok" /\ mountCheck.resp.valid
            /\ variant = "V3" => ~mountCheck.resp.used
            /\ variant = "V2" => mountCheck.stage = "verifySession"
       /\ mountCheck'.stage = "verifySession" =>
            /\ mountCheck.stage = "checkMeal"
            /\ mountCheck.resp.kind = "ok" /\ ~mountCheck.resp.used
       /\ ReportsUsed =>
            /\ currentPage' = "alreadyUsed"
            /\ mealUsedInfo' # Null
            /\ mealUsedInfo'.name = mountCheck.stored.name
            /\ mealUsedInfo'.department = mountCheck.stored.department
            /\ mealUsedInfo'.staffId = mountCheck.stored.id
       /\ NotRestoring =>
            /\ localStorage' = Null
            /\ session' = session
            /\ mountCheck'.phase = "done"]_vars

\* the stored session was restored: nobody logged in, and the dashboard shows
\* the session that is in local storage
C30_Witness ==
  /\ mounted /\ currentPage = "dashboard" /\ mountCheck.phase = "done"
  /\ session # Null /\ session = localStorage
  /\ \A k \in DOMAIN logins : logins[k].phase = "idle"

\* no login, logMeal, stored-session check or logout is under way, and no
\* deferred page change is pending
Quiescent ==
  /\ \A k \in DOMAIN logins : logins[k].phase \notin InFlight
  /\ \A k \in DOMAIN verifies : verifies[k].phase \notin InFlight
  /\ mountCheck.phase \notin InFlight
  /\ logout.phase = "idle"
  /\ pageTimers = <<>>

\* C31: in V2 and V3, once no operation is in flight, the entry
\* mealTicketSession of local storage is absent when there is no session and
\* otherwise equals the session
C31_StorageMirrorsSession ==
  (mounted /\ variant \in {"V2", "V3"} /\ Quiescent) => localStorage = session

\* handleLogin of V2 resumes with its first pair of answers, of which
\* validateStaff reports valid: false
InvalidLoginResumes(k) ==
  /\ variant = "V2" /\ mounted /\ mounted'
  /\ logins[k].phase = "replied" /\ logins[k].stage = "validate"
  /\ logins[k].resp.kind = "fail" /\ logins[k].resp.staff = Null
  /\ logins'[k] # logins[k]

\* C32: in V2 a login whose validateStaff answer is invalid does not end at
\* the alreadyUsed page, neither at once nor after the wait that fills
\* minLoadTime, and sets no mealUsedInfo
C32_AlreadyUsedNeedsValidLogin ==
  [][\A k \in DOMAIN logins :
       InvalidLoginResumes(k) =>
         /\ currentPage' = "alreadyUsed" => currentPage = "alreadyUsed"
         /\ ~(logins'[k].phase = "wait" /\ logins'[k].stage = "alreadyUsed")
         /\ mealUsedInfo' = mealUsedInfo]_vars

\* no startQRScanner call is on its way to a detection loop and no loop or
\* interval is scheduled: without a new click no frame will be sampled
NoSamplingAhead ==
  \A k \in StreamIds :
    \/ tasks[k].phase \in {"idle", "dead"}
    \/ tasks[k].phase = "loop" /\ \A i \in DOMAIN raf : raf[i] # k

\* C33: the scanner is never left displayed with a live stream while no
\* detection loop runs and none is about to start
C33_ScannerNeverStuck ==
  ~(/\ mounted /\ showQRScanner
    /\ cameraStream # 0 /\ cameraStream \in active
    /\ NoSamplingAhead)

\* the detection loops that will sample a coming frame
LiveLoops ==
  {k \in StreamIds :
     \/ tasks[k].phase = "interval"
     \/ tasks[k].phase = "loop" /\ \E i \in DOMAIN raf : raf[i] = k}

\* the verifyMeal calls that one frame showing `scene` starts
StartedByFrame(scene) ==
  {k \in DOMAIN verifies :
     verifies[k].phase = "idle" /\ AfterFrame(scene).verifies[k].phase # "idle"}

\* C34: at most one stream has a live track, at most one detection loop is
\* scheduled, and one frame starts at most one verifyMeal call
C34_OneLoopOneStream ==
  mounted =>
    /\ Cardinality(active) <= 1
    /\ Cardinality(LiveLoops) <= 1
    /\ (variant # "V2" /\ raf # <<>>) =>
         \A sc \in Scenes : Cardinality(StartedByFrame(sc)) <= 1

\* C35: in V1 and V3 mealUsedToday is true exactly when the page is success,
\* and no verifyMeal call sends logMeal while it is true
C35_UsedFlagMatchesSuccess ==
  [][(variant \in {"V1", "V3"} /\ mounted /\ mounted') =>
       /\ mealUsedToday' <=> currentPage' = "success"
       /\ \A k \in DOMAIN verifies :
            (verifies[k].phase = "idle" /\ verifies'[k].phase = "sent") => ~mealUsedToday]_vars

\* a handleLogin call or a verifyMeal call that has set loading is awaiting
\* the store (or, in V2, the wait that fills minLoadTime)
CallInFlight ==
  \/ \E k \in DOMAIN logins : logins[k].phase \in InFlight
  \/ \E k \in DOMAIN verifies : verifies[k].phase \in InFlight

\* the call ends in this step
CallEnds ==
  \/ \E k \in DOMAIN logins : logins[k].phase \in InFlight /\ logins'[k].phase = "done"
  \/ \E k \in DOMAIN verifies :
       verifies[k].phase \in InFlight /\ verifies'[k].phase \notin InFlight

\* C36: loading is false when a handleLogin or verifyMeal call ends, it is
\* true while such a call is in flight, and it is true only then (or while
\* handleLogout of V2 awaits)
C36_LoadingTracksCalls ==
  [][(mounted /\ mounted') =>
       /\ CallEnds => ~loading'
       /\ CallInFlight' => loading'
       /\ loading' => (CallInFlight' \/ logout'.phase # "idle")]_vars
====
